---- MODULE Spec2Model ----
(***************************************************************************)
(* Model of capresize.resize_with_caps (src/capresize.py): nine-grid       *)
(* resizing of a pygame surface.  One behaviour is one call: the inputs    *)
(* are chosen in Init and the actions follow the statements of the         *)
(* function in order.  Surfaces are modelled pixel by pixel; the source    *)
(* surface holds at every pixel its own coordinate, so that a destination  *)
(* pixel tells which source pixel it was copied from.                      *)
(***************************************************************************)
EXTENDS Integers, Sequences, FiniteSets, TLC

\* ------------------------------------------------------------------ bounds
MaxSrc == 3        \* source surfaces are 1..MaxSrc pixels wide and high
MaxDst == 5        \* requested destination sizes go up to MaxDst

VARIABLES
    sw, sh,         \* src.get_size()
    cap_insets,     \* argument: None or <<left, top, right, bottom>>
    dst_size,       \* argument: <<width, height>>
    grow,           \* argument: the growth mode string
    cl, ct, cr, cb, \* resolved caps
    dw, dh,         \* resolved destination size
    dst,            \* the destination surface
    blits,          \* history: the blit calls made on dst, in order
    pc,             \* position in the function
    err             \* the exception raised, if any

vars == <<sw, sh, cap_insets, dst_size, grow, cl, ct, cr, cb, dw, dh,
          dst, blits, pc, err>>

None == <<>>
NoError == "none"
NoArea == <<>>

\* --------------------------------------------------------------- surfaces
Grid(w, h) == (0 .. (w - 1)) \X (0 .. (h - 1))

Blank == [v |-> <<-1, -1>>, n |-> 0]   \* a pixel of a fresh SRCALPHA surface
Undef == <<-2, -2>>                    \* a pixel value the scaler made up

NoSurface == [w |-> 0, h |-> 0, px |-> [p \in {} |-> Blank]]

\* pygame.surface.Surface((w, h), SRCALPHA, 32): all pixels transparent
NewSurface(w, h) == [w |-> w, h |-> h, px |-> [p \in Grid(w, h) |-> Blank]]

\* the source surface: pixel (x, y) holds the value <<x, y>>
Src == [w |-> sw, h |-> sh, px |-> [p \in Grid(sw, sh) |-> p]]

\* Surface.subsurface(Rect(x, y, w, h)): a view on the parent's pixels
subsurface(s, x, y, w, h) ==
    [w |-> w, h |-> h,
     px |-> [p \in Grid(w, h) |-> s.px[<<x + p[1], y + p[2]>>]]]

\* pygame.transform.smoothscale(s, (w, h)): a w x h surface; pixel (i, j)
\* samples the source at the proportional position, so that scaling to the
\* surface's own size is the identity.  An empty source gives made-up pixels.
smoothscale(s, w, h) ==
    [w |-> w, h |-> h,
     px |-> [p \in Grid(w, h) |->
               IF s.w = 0 \/ s.h = 0 THEN Undef
               ELSE s.px[<<(p[1] * s.w) \div w, (p[2] * s.h) \div h>>]]]

Min(a, b) == IF a < b THEN a ELSE b
Max(a, b) == IF a > b THEN a ELSE b

\* mutant: the quotient rounded to the nearest integer
aspect_height_rounded(a, b) == (2 * a + b) \div (2 * b)

\* int(a / float(b)) for b > 0: the quotient truncated toward zero
aspect_height(a, b) == IF a >= 0 THEN a \div b ELSE -((-a) \div b)

\* ------------------------------------------------------- derived locals
smw == sw - cl - cr
smh == sh - cb - ct
dmw == dw - cl - cr
dmh == dh - cb - ct

\* the growable portions of the source
B == subsurface(Src, cl, 0, smw, ct)
D == subsurface(Src, 0, ct, cl, smh)
E == subsurface(Src, cl, ct, smw, smh)
F == subsurface(Src, sw - cr, ct, cr, smh)
H == subsurface(Src, cl, sh - cb, smw, cb)

portion(name) ==
    CASE name = "B" -> B
      [] name = "D" -> D
      [] name = "E" -> E
      [] name = "F" -> F
      [] name = "H" -> H

\* the size each portion is scaled to in 'scale' mode
scaled_size(name) ==
    CASE name = "B" -> <<dmw, ct>>
      [] name = "D" -> <<cl, dmh>>
      [] name = "E" -> <<dmw, dmh>>
      [] name = "F" -> <<cr, dmh>>
      [] name = "H" -> <<dmw, cb>>

\* ------------------------------------------------------------------ blit
\* A blit call: the surface blitted (by name and by the way it was made),
\* the destination position and the optional source area.
BlitOp(name, mode, x, y, area) ==
    [tile |-> name, mode |-> mode, x |-> x, y |-> y, area |-> area]

blit_source(op) ==
    IF op.mode = "cap" THEN Src
    ELSE IF op.mode = "scale"
         THEN smoothscale(portion(op.tile),
                          scaled_size(op.tile)[1], scaled_size(op.tile)[2])
         ELSE portion(op.tile)

\* the source rectangle a blit copies: the area argument clipped to the
\* blitted surface, or the whole surface
blit_area(op) ==
    LET s == blit_source(op)
    IN  IF op.area = NoArea THEN <<0, 0, s.w, s.h>>
        ELSE <<op.area[1], op.area[2],
               Max(0, Min(op.area[3], s.w - op.area[1])),
               Max(0, Min(op.area[4], s.h - op.area[2]))>>

\* destination pixels a blit covers before clipping to the destination
blit_rect(op) ==
    {p \in (op.x .. (op.x + blit_area(op)[3] - 1))
            \X (op.y .. (op.y + blit_area(op)[4] - 1)) : TRUE}

\* Surface.blit: copy the area to the position, clipped to the destination
blit(d, op) ==
    LET s == blit_source(op)
        a == blit_area(op)
        r == blit_rect(op)
    IN  [d EXCEPT !.px =
            [p \in DOMAIN d.px |->
                IF p \in r
                THEN [v |-> s.px[<<a[1] + p[1] - op.x, a[2] + p[2] - op.y>>],
                      n |-> d.px[p].n + 1]
                ELSE d.px[p]]]

RECURSIVE blit_all(_, _)
blit_all(d, ops) ==
    IF ops = <<>> THEN d ELSE blit_all(blit(d, Head(ops)), Tail(ops))

\* ------------------------------------------------------------ the call
Modes == {"scale", "stretch", "tile", "other"}

\* cap insets that leave a source middle of non-negative size
CapInsets(w, h) ==
    {c \in (0 .. w) \X (0 .. h) \X (0 .. w) \X (0 .. h) :
        c[1] + c[3] <= w /\ c[2] + c[4] <= h}

Init ==
    /\ sw \in 1 .. MaxSrc
    /\ sh \in 1 .. MaxSrc
    /\ cap_insets \in {None} \cup CapInsets(sw, sh)
    /\ dst_size \in ((0 - 1) .. MaxDst) \X ((0 - 1) .. MaxDst)
    /\ grow \in Modes
    /\ cl = 0 /\ ct = 0 /\ cr = 0 /\ cb = 0
    /\ dw = 0 /\ dh = 0
    /\ dst = NoSurface
    /\ blits = <<>>
    /\ pc = "start"
    /\ err = NoError

Raise(e) == pc' = "raised" /\ err' = e

\* cap_insets is None: the assertion, then the unpacking of an int
DefaultCaps ==
    /\ pc = "start"
    /\ cap_insets = None
    /\ IF sw % 2 = 1 /\ sh % 2 = 1
       THEN Raise("TypeError")
       ELSE \E e \in {"AssertionError", "TypeError"} : Raise(e)
    /\ UNCHANGED <<sw, sh, cap_insets, dst_size, grow, cl, ct, cr, cb,
                   dw, dh, dst, blits>>

\* cl, ct, cr, cb = cap_insets
GivenCaps ==
    /\ pc = "start"
    /\ cap_insets # None
    /\ cl' = cap_insets[1] /\ ct' = cap_insets[2]
    /\ cr' = cap_insets[3] /\ cb' = cap_insets[4]
    /\ pc' = "caps"
    /\ UNCHANGED <<sw, sh, cap_insets, dst_size, grow, dw, dh, dst, blits,
                   err>>

\* the destination height after the aspect-ratio default
resolved_height ==
    IF dst_size[2] = 0 THEN aspect_height(sh * dst_size[1], sw)
    ELSE dst_size[2]

\* dw, dh = dst_size; the height default; the destination surface
Allocate ==
    /\ pc = "caps"
    /\ dw' = dst_size[1]
    /\ dh' = resolved_height
    /\ IF dst_size[1] < 0 \/ resolved_height < 0
       THEN /\ Raise("pygame.error")
            /\ UNCHANGED dst
       ELSE /\ dst' = NewSurface(dst_size[1], resolved_height)
            /\ pc' = "alloc"
            /\ UNCHANGED err
    /\ UNCHANGED <<sw, sh, cap_insets, dst_size, grow, cl, ct, cr, cb,
                   blits>>

\* mutant: cap C is copied from the left end of the source
cap_blits_left ==
    << BlitOp("A", "cap", 0, 0, <<0, 0, cl, ct>>),
       BlitOp("C", "cap", dw - cr, 0, <<0, 0, cr, ct>>),
       BlitOp("G", "cap", 0, dh - cb, <<0, sh - cb, cl, cb>>),
       BlitOp("I", "cap", dw - cr, dh - cb, <<sw - cr, sh - cb, cr, cb>>) >>

\* render caps: A, C, G, I in that order
cap_blits ==
    << BlitOp("A", "cap", 0, 0, <<0, 0, cl, ct>>),
       BlitOp("C", "cap", dw - cr, 0, <<sw - cr, 0, cr, ct>>),
       BlitOp("G", "cap", 0, dh - cb, <<0, sh - cb, cl, cb>>),
       BlitOp("I", "cap", dw - cr, dh - cb, <<sw - cr, sh - cb, cr, cb>>) >>

RenderCaps ==
    /\ pc = "alloc"
    /\ dst' = blit_all(dst, cap_blits)
    /\ blits' = blits \o cap_blits
    /\ pc' = "caps_done"
    /\ UNCHANGED <<sw, sh, cap_insets, dst_size, grow, cl, ct, cr, cb,
                   dw, dh, err>>

\* mutant: F is placed by the middle width instead of the right cap
scale_blits_shifted ==
    << BlitOp("B", "scale", cl, 0, NoArea),
       BlitOp("D", "scale", 0, ct, NoArea),
       BlitOp("E", "scale", cl, ct, NoArea),
       BlitOp("F", "scale", dw - smw, ct, NoArea),
       BlitOp("H", "scale", cl, dh - cb, NoArea) >>

\* grow == 'scale' or grow == 'stretch'
scale_blits ==
    << BlitOp("B", "scale", cl, 0, NoArea),
       BlitOp("D", "scale", 0, ct, NoArea),
       BlitOp("E", "scale", cl, ct, NoArea),
       BlitOp("F", "scale", dw - cr, ct, NoArea),
       BlitOp("H", "scale", cl, dh - cb, NoArea) >>

GrowScale ==
    /\ pc = "caps_done"
    /\ grow \in {"scale", "stretch"}
    /\ dmw >= 0 /\ dmh >= 0
    /\ dst' = blit_all(dst, scale_blits)
    /\ blits' = blits \o scale_blits
    /\ pc' = "grown"
    /\ UNCHANGED <<sw, sh, cap_insets, dst_size, grow, cl, ct, cr, cb,
                   dw, dh, err>>

\* smoothscale refuses a negative size: B is scaled first (to dmw wide),
\* D second (to dmh high)
GrowScaleRaise ==
    /\ pc = "caps_done"
    /\ grow \in {"scale", "stretch"}
    /\ dmw < 0 \/ dmh < 0
    /\ LET done == IF dmw < 0 THEN <<>> ELSE SubSeq(scale_blits, 1, 1)
       IN  /\ dst' = blit_all(dst, done)
           /\ blits' = blits \o done
    /\ Raise("ValueError")
    /\ UNCHANGED <<sw, sh, cap_insets, dst_size, grow, cl, ct, cr, cb,
                   dw, dh>>

\* ------------------------------------------------------------ tile mode
n_across == dmw \div smw
rem_px_across == dmw - n_across * smw
n_down == dmh \div smh
rem_px_down == dmh - n_down * smh

\* range(int(n)) is empty for n <= 0
loops(n) == IF n > 0 THEN n ELSE 0

\* n_across = dmw // smw ... rem_px_down = dmh - n_down * smh
TileCounts ==
    /\ pc = "caps_done"
    /\ grow = "tile"
    /\ smw # 0 /\ smh # 0
    /\ pc' = "counted"
    /\ UNCHANGED <<sw, sh, cap_insets, dst_size, grow, cl, ct, cr, cb,
                   dw, dh, dst, blits, err>>

\* mutant: a zero middle size skips the tiling instead of failing
TileCountsSkip ==
    /\ pc = "caps_done"
    /\ grow = "tile"
    /\ smw = 0 \/ smh = 0
    /\ pc' = "grown"
    /\ UNCHANGED <<sw, sh, cap_insets, dst_size, grow, cl, ct, cr, cb,
                   dw, dh, dst, blits, err>>

\* integer division by a zero middle size
TileCountsRaise ==
    /\ pc = "caps_done"
    /\ grow = "tile"
    /\ smw = 0 \/ smh = 0
    /\ Raise("ZeroDivisionError")
    /\ UNCHANGED <<sw, sh, cap_insets, dst_size, grow, cl, ct, cr, cb,
                   dw, dh, dst, blits>>

\* mutant: the partial tile is taken from the tile's trailing edge
render_across_trailing(tile, y, h) ==
    [i \in 1 .. loops(n_across) |->
        BlitOp(tile, "tile", cl + (i - 1) * smw, y, NoArea)]
    \o (IF rem_px_across > 0
        THEN << BlitOp(tile, "tile", cl + loops(n_across) * smw, y,
                       <<smw - rem_px_across, 0, rem_px_across, h>>) >>
        ELSE <<>>)

\* def render_across(tile, y, h)
render_across(tile, y, h) ==
    [i \in 1 .. loops(n_across) |->
        BlitOp(tile, "tile", cl + (i - 1) * smw, y, NoArea)]
    \o (IF rem_px_across > 0
        THEN << BlitOp(tile, "tile", cl + loops(n_across) * smw, y,
                       <<0, 0, rem_px_across, h>>) >>
        ELSE <<>>)

\* def render_down(tile, x, w)
render_down(tile, x, w) ==
    [i \in 1 .. loops(n_down) |->
        BlitOp(tile, "tile", x, ct + (i - 1) * smh, NoArea)]
    \o (IF rem_px_down > 0
        THEN << BlitOp(tile, "tile", x, ct + loops(n_down) * smh,
                       <<0, 0, w, rem_px_down>>) >>
        ELSE <<>>)

\* render_across(B, ...), render_across(H, ...), render_down(D, ...),
\* render_down(F, ...)
edge_blits ==
    render_across("B", 0, ct) \o render_across("H", dh - smh, cb)
    \o render_down("D", 0, cl) \o render_down("F", dw - smw, cr)

TileEdges ==
    /\ pc = "counted"
    /\ dst' = blit_all(dst, edge_blits)
    /\ blits' = blits \o edge_blits
    /\ pc' = "edges_done"
    /\ UNCHANGED <<sw, sh, cap_insets, dst_size, grow, cl, ct, cr, cb,
                   dw, dh, err>>

\* the n_down full rows of E
RECURSIVE center_rows(_)
center_rows(i) ==
    IF i > loops(n_down) THEN <<>>
    ELSE render_across("E", ct + (i - 1) * smh, smh) \o center_rows(i + 1)

\* the partial row of E below the full rows
center_last_row ==
    IF rem_px_down > 0
    THEN LET y == ct + loops(n_down) * smh
         IN  [i \in 1 .. loops(n_across) |->
                 BlitOp("E", "tile", cl + (i - 1) * smw, y,
                        <<0, 0, smw, rem_px_down>>)]
             \o (IF rem_px_across > 0
                 THEN << BlitOp("E", "tile", cl + loops(n_across) * smw, y,
                                <<0, 0, rem_px_across, rem_px_down>>) >>
                 ELSE <<>>)
    ELSE <<>>

center_blits == center_rows(1) \o center_last_row

TileCenter ==
    /\ pc = "edges_done"
    /\ dst' = blit_all(dst, center_blits)
    /\ blits' = blits \o center_blits
    /\ pc' = "grown"
    /\ UNCHANGED <<sw, sh, cap_insets, dst_size, grow, cl, ct, cr, cb,
                   dw, dh, err>>

\* neither branch of the if/elif is taken
NoGrowth ==
    /\ pc = "caps_done"
    /\ grow \notin {"scale", "stretch", "tile"}
    /\ pc' = "grown"
    /\ UNCHANGED <<sw, sh, cap_insets, dst_size, grow, cl, ct, cr, cb,
                   dw, dh, dst, blits, err>>

\* return dst
Return ==
    /\ pc = "grown"
    /\ pc' = "returned"
    /\ UNCHANGED <<sw, sh, cap_insets, dst_size, grow, cl, ct, cr, cb,
                   dw, dh, dst, blits, err>>

Next ==
    \/ DefaultCaps
    \/ GivenCaps
    \/ Allocate
    \/ RenderCaps
    \/ GrowScale
    \/ GrowScaleRaise
    \/ TileCounts
    \/ TileCountsRaise
    \/ TileEdges
    \/ TileCenter
    \/ NoGrowth
    \/ Return

Spec == Init /\ [][Next]_vars

\* ------------------------------------------------------------- vocabulary
Returned == pc = "returned"
Raised == pc = "raised"
Finished == Returned \/ Raised

TypeOK ==
    /\ pc \in {"start", "caps", "alloc", "caps_done", "counted",
               "edges_done", "grown", "returned", "raised"}
    /\ dst.w >= 0 /\ dst.h >= 0

Recognized == {"scale", "stretch", "tile"}

\* the nine regions of the destination
CornerA == (0 .. (cl - 1)) \X (0 .. (ct - 1))
CornerC == ((dw - cr) .. (dw - 1)) \X (0 .. (ct - 1))
CornerG == (0 .. (cl - 1)) \X ((dh - cb) .. (dh - 1))
CornerI == ((dw - cr) .. (dw - 1)) \X ((dh - cb) .. (dh - 1))
Corners == CornerA \cup CornerC \cup CornerG \cup CornerI

TopEdge == (cl .. (dw - cr - 1)) \X (0 .. (ct - 1))
BottomEdge == (cl .. (dw - cr - 1)) \X ((dh - cb) .. (dh - 1))
LeftEdge == (0 .. (cl - 1)) \X (ct .. (dh - cb - 1))
RightEdge == ((dw - cr) .. (dw - 1)) \X (ct .. (dh - cb - 1))
Center == (cl .. (dw - cr - 1)) \X (ct .. (dh - cb - 1))
Growable == TopEdge \cup BottomEdge \cup LeftEdge \cup RightEdge \cup Center

GrowthBlits == {i \in DOMAIN blits : blits[i].mode # "cap"}
BlitsOf(name) == {i \in GrowthBlits : blits[i].tile = name}

\* how many blits of the growth step cover destination pixel p
growth_writes(p) ==
    Cardinality({i \in GrowthBlits : p \in blit_rect(blits[i])})

\* ------------------------------------------------------------------ C1
\* C1: in Tile mode with positive source middles and non-negative
\* destination middles, the growth blits write every pixel of the five
\* growable destination regions exactly once.
C1_TileCoversGrowableOnce ==
    (Returned /\ grow = "tile" /\ dmw >= 0 /\ dmh >= 0)
        => \A p \in Growable : growth_writes(p) = 1

\* ------------------------------------------------------------------ C2
\* C2: resizing to the source's own size, with positive middles, returns an
\* image equal to the source pixel for pixel, in both modes.
C2_IdentityResize ==
    (Returned /\ grow \in Recognized /\ dst_size = <<sw, sh>>
              /\ smw > 0 /\ smh > 0)
        => \A p \in Grid(sw, sh) : dst.px[p].v = p

\* ------------------------------------------------------------------ C3
\* C3: for valid inputs and both modes, the four corners of the returned
\* image hold the pixels of the corresponding source corners, and no blit
\* of the growth step writes inside a destination corner.
C3_CornerFidelity ==
    (Returned /\ grow \in Recognized /\ dmw >= 0 /\ dmh >= 0)
        => /\ \A p \in CornerA : dst.px[p].v = p
           /\ \A p \in CornerC : dst.px[p].v = <<p[1] - dw + sw, p[2]>>
           /\ \A p \in CornerG : dst.px[p].v = <<p[1], p[2] - dh + sh>>
           /\ \A p \in CornerI :
                  dst.px[p].v = <<p[1] - dw + sw, p[2] - dh + sh>>
           /\ \A p \in Corners : growth_writes(p) = 0

\* a tiled call that grew the middle and has a non-empty, written corner
C3_Witness ==
    /\ Returned /\ grow = "tile"
    /\ cr > 0 /\ cb > 0 /\ dmw > smw /\ dmh > smh
    /\ \A p \in CornerI : dst.px[p].n = 1

\* ------------------------------------------------------------------ C4
\* C4: with cap_insets None and an odd source width and height the call
\* succeeds, with caps floor(width/2) left and right and floor(height/2)
\* top and bottom.
C4_DefaultCapsSucceed ==
    (Finished /\ cap_insets = None /\ sw % 2 = 1 /\ sh % 2 = 1)
        => /\ Returned
           /\ cl = sw \div 2 /\ cr = sw \div 2
           /\ ct = sh \div 2 /\ cb = sh \div 2

\* ------------------------------------------------------------------ C5
\* C5: a call with an unrecognized growth mode is rejected: no image is
\* returned.
C5_UnknownModeRejected ==
    (grow \notin Recognized) => ~Returned

\* ------------------------------------------------------------------ C6
\* C6: a call whose destination width is <= 0 or whose destination is
\* narrower or lower than the caps is rejected in both modes, and no tile
\* is composited.
C6_BadDestinationRejected ==
    (pc \notin {"start", "caps"} /\ grow \in Recognized
        /\ (dw <= 0 \/ dmw < 0 \/ dmh < 0))
        => /\ ~Returned
           /\ \A i \in DOMAIN blits : blits[i].mode # "tile"

\* ------------------------------------------------------------------ C7
ZeroMiddleTile ==
    Finished /\ cap_insets # None /\ grow = "tile" /\ (smw = 0 \/ smh = 0)

\* C7 (as claimed): in Tile mode with a zero-sized source middle the call is
\* rejected and, when the error is raised, no blit has been performed, not
\* even of a corner.
C7_RejectedBeforeAnyBlit ==
    ZeroMiddleTile => (Raised /\ blits = <<>>)

\* C7 (amended): in Tile mode with a zero-sized source middle the call is
\* rejected and no image is returned; no blit of the growth step has been
\* performed when the error is raised, but the division by zero is raised
\* only after the four corner blits.
C7_RejectedAfterCornerBlits ==
    ZeroMiddleTile
        => /\ Raised
           /\ GrowthBlits = {}
           /\ err = "ZeroDivisionError"
                 => /\ Len(blits) = 4
                    /\ \A i \in 1 .. 4 : blits[i].mode = "cap"

\* the division by zero is raised on a destination with a written corner
C7_Witness ==
    /\ ZeroMiddleTile /\ err = "ZeroDivisionError"
    /\ smw = 0 /\ dmw > 0
    /\ \E p \in CornerA : dst.px[p].n = 1

\* ------------------------------------------------------------------ C8
\* h is an integer nearest to a / b
IsNearest(h, a, b) == 2 * a - b <= 2 * h * b /\ 2 * h * b <= 2 * a + b

\* C8 (as claimed): the returned image has the requested width and height,
\* and for a requested height of 0 the height round(sh * dw / sw).
C8_RoundedHeight ==
    Returned
        => /\ dst.w = dst_size[1]
           /\ dst_size[2] # 0 => dst.h = dst_size[2]
           /\ dst_size[2] = 0 => IsNearest(dst.h, sh * dst_size[1], sw)

\* C8 (amended): the returned image has the requested width and height,
\* and for a requested height of 0 the height is sh * dw / sw truncated to
\* an integer (the floor, as dw >= 0 in every call that returns).
C8_TruncatedHeight ==
    Returned
        => /\ dst.w = dst_size[1]
           /\ dst_size[2] # 0 => dst.h = dst_size[2]
           /\ dst_size[2] = 0
                 => /\ dst.h * sw <= sh * dst_size[1]
                    /\ sh * dst_size[1] < (dst.h + 1) * sw

\* a returned call whose derived height has a fraction of at least 1/2
C8_Witness ==
    /\ Returned /\ dst_size[2] = 0
    /\ 2 * ((sh * dst_size[1]) % sw) >= sw
    /\ dst.h > 0

\* ------------------------------------------------------------------ C9
\* C9: in Scale mode, for valid inputs, the four corner blits and the five
\* scaled blits (each at its region's position and of its region's size)
\* partition the destination: every pixel is written exactly once and no
\* blit extends outside the destination.
C9_ScalePartition ==
    (Returned /\ grow \in {"scale", "stretch"})
        => /\ dmw >= 0 /\ dmh >= 0
           /\ Len(blits) = 9
           /\ \A p \in Grid(dw, dh) : dst.px[p].n = 1
           /\ \A i \in DOMAIN blits : blit_rect(blits[i]) \subseteq Grid(dw, dh)
           /\ \A i \in BlitsOf("B") : blit_rect(blits[i]) = TopEdge
           /\ \A i \in BlitsOf("D") : blit_rect(blits[i]) = LeftEdge
           /\ \A i \in BlitsOf("E") : blit_rect(blits[i]) = Center
           /\ \A i \in BlitsOf("F") : blit_rect(blits[i]) = RightEdge
           /\ \A i \in BlitsOf("H") : blit_rect(blits[i]) = BottomEdge

\* a scaled call with four non-empty corners and a middle that grew
C9_Witness ==
    /\ Returned /\ grow = "scale"
    /\ cl > 0 /\ ct > 0 /\ cr > 0 /\ cb > 0
    /\ dmw > smw /\ dmh > smh /\ smw > 0 /\ smh > 0

\* ----------------------------------------------------------------- C10
\* the segments a span of dm pixels starting at cap is cut into by tiles of
\* sm pixels: <<offset, length>> of the whole tiles and of the remainder
Segments(cap, dm, sm) ==
    LET n == CHOOSE k \in 0 .. dm : k * sm <= dm /\ dm < (k + 1) * sm
        rem == dm - n * sm
    IN  {<<cap + i * sm, sm>> : i \in 0 .. (n - 1)}
        \cup (IF rem > 0 THEN {<<cap + n * sm, rem>>} ELSE {})

\* the blits of a tile start their source area at the tile's origin, and
\* are given no area exactly when they copy the whole tile
FromLeadingEdge(name) ==
    \A i \in BlitsOf(name) :
        /\ blit_area(blits[i])[1] = 0 /\ blit_area(blits[i])[2] = 0
        /\ blits[i].area = NoArea
              <=> /\ blit_area(blits[i])[3] = portion(name).w
                  /\ blit_area(blits[i])[4] = portion(name).h

\* the blits of an edge are, along the axis, exactly the segments
TiledAcross(name) ==
    /\ {<<blits[i].x, blit_area(blits[i])[3]>> : i \in BlitsOf(name)}
          = Segments(cl, dmw, smw)
    /\ Cardinality(BlitsOf(name)) = Cardinality(Segments(cl, dmw, smw))
    /\ FromLeadingEdge(name)

TiledDown(name) ==
    /\ {<<blits[i].y, blit_area(blits[i])[4]>> : i \in BlitsOf(name)}
          = Segments(ct, dmh, smh)
    /\ Cardinality(BlitsOf(name)) = Cardinality(Segments(ct, dmh, smh))
    /\ FromLeadingEdge(name)

TiledBoth(name) ==
    /\ {<<blits[i].x, blit_area(blits[i])[3],
          blits[i].y, blit_area(blits[i])[4]>> : i \in BlitsOf(name)}
          = {<<a[1], a[2], d[1], d[2]>> :
                a \in Segments(cl, dmw, smw), d \in Segments(ct, dmh, smh)}
    /\ Cardinality(BlitsOf(name))
          = Cardinality(Segments(cl, dmw, smw))
              * Cardinality(Segments(ct, dmh, smh))
    /\ FromLeadingEdge(name)

\* C10: in Tile mode, along each axis with a positive source middle and a
\* non-negative destination middle, every tiled region gets exactly
\* dm div sm whole tiles at cap + i * sm and, if and only if a remainder is
\* left, one partial copy at cap + n * sm taken from the tile's leading
\* edge and spanning the remainder; the center on both axes.
C10_TilesAndRemainder ==
    (Returned /\ grow = "tile")
        => /\ dmw >= 0 /\ ct > 0 => TiledAcross("B")
           /\ dmw >= 0 /\ cb > 0 => TiledAcross("H")
           /\ dmh >= 0 /\ cl > 0 => TiledDown("D")
           /\ dmh >= 0 /\ cr > 0 => TiledDown("F")
           /\ dmw >= 0 /\ dmh >= 0 => TiledBoth("E")

\* two whole tiles and a remainder across, a remainder down
C10_Witness ==
    /\ Returned /\ grow = "tile"
    /\ dmw >= 2 * smw /\ dmw % smw > 0
    /\ dmh >= smh /\ dmh % smh > 0
    /\ ct > 0

====
